---- MODULE Spec2Model ----
(***************************************************************************)
(* Course-ranking pipeline of the exit-survey analysis, in its two         *)
(* variants:                                                               *)
(*   "xlsx"  analyze_survey() of src/src/analysis.py       (header text)   *)
(*   "csv"   main()           of src/src/analyze_survey.py (id prefix)     *)
(* A run is: load the file, classify the columns, score the respondents,   *)
(* aggregate per course, sort, print, save the chart.                      *)
(*                                                                         *)
(* Encodings.  A cell is a string, "NaN" being the empty cell.  An         *)
(* optional number (Python None / float NaN) is a sequence: <<>> is        *)
(* absent, <<n>> is n.  A mean is the exact fraction [num, den]; den = 0   *)
(* is the NaN that the mean of nothing gives.  A header text is the        *)
(* sequence of its tokens, "-" being the separator " - ".                  *)
(***************************************************************************)
EXTENDS Integers, Sequences, FiniteSets

\* ---------------------------------------------------------------- bounds
NumColumns == 3
NumRespondents == 2
MaxFilled == 2

Respondents == 1..NumRespondents

\* ------------------------------------------------------ optional numbers
None == <<>>
Some(x) == <<x>>
IsNone(o) == o = <<>>
Val(o) == o[1]

NaNMean == [num |-> 0, den |-> 0]
IsNaNMean(m) == m.den = 0
MeanEq(a, b) == a.den > 0 /\ b.den > 0 /\ a.num * b.den = b.num * a.den
MeanGT(a, b) == a.den > 0 /\ b.den > 0 /\ a.num * b.den > b.num * a.den

RECURSIVE SumOver(_, _)
SumOver(f, S) ==
  IF S = {} THEN 0
  ELSE LET x == CHOOSE y \in S : TRUE IN f[x] + SumOver(f, S \ {x})

\* mutant of SeriesMean: an absent score counts as an observation of zero
SeriesMeanAbsentAsZero(series) ==
  LET valid == {r \in DOMAIN series : ~IsNone(series[r])}
  IN [num |-> SumOver([r \in valid |-> Val(series[r])], valid),
      den |-> Cardinality(DOMAIN series)]

\* valid_scores.mean(): the mean of the non-NaN entries of a series
SeriesMean(series) ==
  LET valid == {r \in DOMAIN series : ~IsNone(series[r])}
  IN [num |-> SumOver([r \in valid |-> Val(series[r])], valid),
      den |-> Cardinality(valid)]

\* str ordering of the course names that occur in the model
SortedNames == <<"Audit", "Name", "Tax">>
NameRank(s) == CHOOSE i \in 1..Len(SortedNames) : SortedNames[i] = s
NameLess(a, b) == NameRank(a) < NameRank(b)

\* pandas isna / notna of one cell
isna(val) == val = "NaN"
notna(val) == ~isna(val)

\* ------------------------------------------------------------ the inputs
\* Header row 0 of the spreadsheet: "<preamble> - Ranks - <group> - <course> - Rank"
RankHeader(marker, group, course, id) ==
  [q_text |-> <<marker, "-", "Ranks", "-", group, "-", course, "-", "Rank">>,
   import_id |-> id]

XlsxHeaders ==
  { RankHeader("CORE", "Most Beneficial", "Audit", "QID84_G0_1"),
    RankHeader("Elective", "Most Beneficial", "Audit", "QID90_G0_1"),
    RankHeader("CORE", "Neutral", "Audit", "QID84_G1_1"),
    RankHeader("CORE", "Did not take", "Audit", "QID84_G3_1"),
    RankHeader("Elective", "Neutral", "Tax", "QID90_G1_2"),
    [q_text |-> <<"Elective", "-", "Comments">>, import_id |-> "QID91"] }

\* Rows 0 and 1 of the CSV: question id, course name
CsvHeaders ==
  { [qid |-> "Q35_1", course |-> "Audit"],
    [qid |-> "Q76_1", course |-> "Audit"],
    [qid |-> "Q76_2", course |-> "Tax"],
    [qid |-> "Q1", course |-> "Name"] }

XlsxCells == {"1"}
CsvCells == {"3", "Neutral"}

\* the headers of n columns, no header twice
HeaderRows(headers, n) ==
  {h \in [1..n -> headers] : \A i, j \in 1..n : i # j => h[i] # h[j]}

\* the cells that hold an answer: at most MaxFilled of them
FilledCells(n) ==
  {T \in SUBSET ((1..n) \X Respondents) : Cardinality(T) <= MaxFilled}

\* the table with headers hs whose answered cells are those of fill
TableOf(hs, fill) ==
  [c \in DOMAIN hs |->
     [header |-> hs[c],
      cells |-> [r \in Respondents |->
                   IF <<c, r>> \in DOMAIN fill THEN fill[<<c, r>>] ELSE "NaN"]]]

\* df is a table of 1..NumColumns columns with distinct headers,
\* NumRespondents rows and at most MaxFilled answered cells
IsInputTable(table, headers, cellValues) ==
  \E n \in 1..NumColumns :
    \E hs \in HeaderRows(headers, n) :
      \E S \in FilledCells(n) :
        \E fill \in [S -> cellValues] :
          table = TableOf(hs, fill)

VARIABLES variant, file, df, pc, console, relevant_columns, unique_courses,
          course_scores, respondent_scores, results_sorted,
          course_ratings, course_stats, outputs_dir, chart_saved

vars == <<variant, file, df, pc, console, relevant_columns, unique_courses,
          course_scores, respondent_scores, results_sorted,
          course_ratings, course_stats, outputs_dir, chart_saved>>

\* the cells of the column with header col_name (df[col_name])
ColumnOf(table, col_name) ==
  table[CHOOSE c \in DOMAIN table : table[c].header = col_name].cells

\* ------------------------------------------- spreadsheet variant: headers
\* "CORE" in q_text, "Elective" in q_text
TextContains(q_text, word) == \E i \in DOMAIN q_text : q_text[i] = word

\* the positions where ' - Ranks - (.*?) - (.*?) - Rank' matches; group and
\* course are one token each
RankMatches(q_text) ==
  { i \in DOMAIN q_text :
      /\ i + 7 <= Len(q_text)
      /\ q_text[i] = "-" /\ q_text[i + 1] = "Ranks" /\ q_text[i + 2] = "-"
      /\ q_text[i + 3] # "-"
      /\ q_text[i + 4] = "-"
      /\ q_text[i + 5] # "-"
      /\ q_text[i + 6] = "-" /\ q_text[i + 7] = "Rank" }

parse_header(header_tuple) ==
  LET q_text == header_tuple.q_text
      is_core == TextContains(q_text, "CORE")
      is_elective == TextContains(q_text, "Elective")
      matches == RankMatches(q_text)
      m == CHOOSE i \in matches : \A j \in matches : i <= j
  IN IF ~(is_core \/ is_elective) THEN None
     ELSE IF matches # {}
       THEN Some([type |-> IF is_core THEN "Core" ELSE "Elective",
                  group |-> q_text[m + 3],
                  course |-> q_text[m + 5],
                  col_idx |-> header_tuple])
       ELSE None

\* the loop that collects relevant_columns
RECURSIVE RelevantColumns(_)
RelevantColumns(headers) ==
  IF headers = <<>> THEN <<>>
  ELSE LET info == parse_header(Head(headers))
       IN (IF IsNone(info) THEN <<>> ELSE <<Val(info)>>)
            \o RelevantColumns(Tail(headers))

HeadersOf(table) == [c \in DOMAIN table |-> table[c].header]

\* the dict unique_courses, in insertion order: course -> import ids
RECURSIVE UniqueCourses(_, _)
UniqueCourses(infos, acc) ==
  IF infos = <<>> THEN acc
  ELSE LET info == Head(infos)
           known == \E k \in DOMAIN acc : acc[k].course = info.course
           next ==
             IF known
             THEN [k \in DOMAIN acc |->
                     IF acc[k].course = info.course
                     THEN [acc[k] EXCEPT !.ids = @ \o <<info.col_idx.import_id>>]
                     ELSE acc[k]]
             ELSE Append(acc, [course |-> info.course,
                               ids |-> <<info.col_idx.import_id>>])
       IN UniqueCourses(Tail(infos), next)

RECURSIVE AuditLines(_)
AuditLines(uc) ==
  IF uc = <<>> THEN <<>>
  ELSE <<<<"audit", Head(uc).course, Head(uc).ids[1]>>>> \o AuditLines(Tail(uc))

\* -------------------------------------------- spreadsheet variant: scores
\* mutant of GroupScore: "Did not take" scored as the lowest rank
GroupScoreDidNotTakeLowest(group) ==
  IF group = "Most Beneficial" THEN Some(3)
  ELSE IF group = "Neutral" THEN Some(2)
  ELSE IF group = "Least Beneficial" THEN Some(1)
  ELSE IF group = "Did not take" THEN Some(1)
  ELSE None

\* the score of a column's group; None for "Did not take" and any other label
GroupScore(group) ==
  IF group = "Most Beneficial" THEN Some(3)
  ELSE IF group = "Neutral" THEN Some(2)
  ELSE IF group = "Least Beneficial" THEN Some(1)
  ELSE None

\* df[col_name].notna().astype(int) * score, then .replace(0, nan)
PresenceSeries(cells, score) ==
  [r \in DOMAIN cells |->
     LET product == (IF notna(cells[r]) THEN 1 ELSE 0) * score
     IN IF product = 0 THEN None ELSE Some(product)]

\* course_df[group] = series : a column assignment, replacing the column
\* already stored under that label
AssignColumn(course_df, group, series) ==
  [g \in DOMAIN course_df \cup {group} |->
     IF g = group THEN series ELSE course_df[g]]

\* the loop over the columns of one course that fills course_df
RECURSIVE BuildCourseDf(_, _, _)
BuildCourseDf(table, cols, course_df) ==
  IF cols = <<>> THEN course_df
  ELSE LET info == Head(cols)
           score == GroupScore(info.group)
       IN BuildCourseDf(table, Tail(cols),
            IF IsNone(score) THEN course_df
            ELSE AssignColumn(course_df, info.group,
                   PresenceSeries(ColumnOf(table, info.col_idx), Val(score))))

EmptyDf == [g \in {} |-> <<>>]

\* DataFrame.empty : no column or no row
DfEmpty(course_df) == DOMAIN course_df = {} \/ Respondents = {}

\* course_df.max(axis=1) : the row maximum, NaN where every entry is NaN
RowMax(course_df) ==
  [r \in Respondents |->
     LET present == {Val(course_df[g][r]) : g \in {h \in DOMAIN course_df :
                                                     ~IsNone(course_df[h][r])}}
     IN IF present = {} THEN None
        ELSE Some(CHOOSE x \in present : \A y \in present : y <= x)]

ColsOfCourse(infos, course) == SelectSeq(infos, LAMBDA info : info.course = course)

\* ------------------------------------------------------------ the sorting
Orderings(n) ==
  {p \in [1..n -> 1..n] : \A i, j \in 1..n : i # j => p[i] # p[j]}

\* a before b in a descending sort with NaN last
SortsBefore(a, b) == (~IsNaNMean(a) /\ IsNaNMean(b)) \/ MeanGT(a, b)

\* sort_values(ascending=False) with the default kind 'quicksort', which is
\* not stable: every descending arrangement, NaN last, is an outcome
SortValuesDescending(s) ==
  { [i \in 1..Len(s) |-> s[p[i]]] :
      p \in {q \in Orderings(Len(s)) :
               \A i, j \in 1..Len(s) :
                  i < j => ~SortsBefore(s[q[j]].mean, s[q[i]].mean)} }

\* ------------------------------------------------- CSV variant: the cells
\* float(val) succeeds on these cells
Numeric == [c \in {"1", "2", "3"} |-> IF c = "1" THEN 1 ELSE IF c = "2" THEN 2 ELSE 3]

\* label in s_val, for cells that hold one label or other text
LabelIn(label, s_val) == s_val = label

map_group_to_score(val) ==
  IF isna(val) THEN None
  ELSE IF val \in DOMAIN Numeric THEN Some(Numeric[val])
  ELSE IF LabelIn("Most Beneficial", val) THEN Some(3)
  ELSE IF LabelIn("Neutral", val) THEN Some(2)
  ELSE IF LabelIn("Least Beneficial", val) THEN Some(1)
  ELSE None

\* qid.startswith('Q35') or qid.startswith('Q76')
CoreOrElectiveId(qid) == qid \in {"Q35_1", "Q35_2", "Q76_1", "Q76_2"}

\* the ratings one column appends, row by row
RECURSIVE ColumnRatings(_, _, _)
ColumnRatings(course, cells, idx) ==
  IF idx > NumRespondents THEN <<>>
  ELSE LET score == map_group_to_score(cells[idx])
       IN (IF IsNone(score) THEN <<>>
           ELSE <<[Respondent |-> idx, Course |-> course, Score |-> Val(score)]>>)
            \o ColumnRatings(course, cells, idx + 1)

\* the loop over the columns: the audit lines and course_ratings
RECURSIVE ExtractRatings(_, _)
ExtractRatings(table, col_idx) ==
  IF col_idx > Len(table) THEN [lines |-> <<>>, ratings |-> <<>>]
  ELSE LET qid == table[col_idx].header.qid
           course == table[col_idx].header.course
           rest == ExtractRatings(table, col_idx + 1)
       IN IF CoreOrElectiveId(qid)
          THEN [lines |-> <<<<"audit", qid, course>>>> \o rest.lines,
                ratings |-> ColumnRatings(course, table[col_idx].cells, 1)
                              \o rest.ratings]
          ELSE rest

RECURSIVE SumScores(_)
SumScores(ratings) ==
  IF ratings = <<>> THEN 0 ELSE Head(ratings).Score + SumScores(Tail(ratings))

\* groupby('Course')['Score'].agg(['mean', 'count']).reset_index(): one row
\* per course that has a rating, in ascending course order
RECURSIVE GroupByCourse(_, _)
GroupByCourse(ratings, k) ==
  IF k > Len(SortedNames) THEN <<>>
  ELSE LET group == SelectSeq(ratings, LAMBDA x : x.Course = SortedNames[k])
       IN (IF group = <<>> THEN <<>>
           ELSE <<[course |-> SortedNames[k],
                   mean |-> [num |-> SumScores(group), den |-> Len(group)],
                   count |-> Len(group)]>>)
            \o GroupByCourse(ratings, k + 1)

\* ------------------------------------------------------------------ Init
Init ==
  /\ variant \in {"xlsx", "csv"}
  /\ file \in {"missing", "unreadable", "ok"}
  /\ IF file # "ok" THEN df = <<>>
     ELSE IF variant = "xlsx" THEN IsInputTable(df, XlsxHeaders, XlsxCells)
     ELSE IsInputTable(df, CsvHeaders, CsvCells)
  /\ pc = "start"
  /\ console = <<>>
  /\ relevant_columns = <<>>
  /\ unique_courses = <<>>
  /\ course_scores = <<>>
  /\ respondent_scores = [c \in {} |-> <<>>]
  /\ results_sorted = <<>>
  /\ course_ratings = <<>>
  /\ course_stats = <<>>
  /\ outputs_dir = FALSE
  /\ chart_saved = FALSE

\* ------------------------------------------- spreadsheet variant: actions
\* mutant of XlsxFileNotFound: the missing file goes unnoticed
XlsxFileNotFoundUnnoticed(f) == FALSE

\* pd.read_excel raises FileNotFoundError
XlsxFileNotFound(f) == f = "missing"

\* read the file; a missing file prints and returns, any other read error
\* is not caught
XlsxLoad ==
  /\ variant = "xlsx" /\ pc = "start"
  /\ IF XlsxFileNotFound(file)
     THEN /\ console' = Append(console, <<"file_not_found">>)
          /\ pc' = "done"
     ELSE IF file = "unreadable"
     THEN /\ pc' = "crashed"
          /\ UNCHANGED console
     ELSE /\ pc' = "classify"
          /\ UNCHANGED console
  /\ UNCHANGED <<variant, file, df, relevant_columns, unique_courses,
                 course_scores, respondent_scores, results_sorted,
                 course_ratings, course_stats, outputs_dir, chart_saved>>

\* collect relevant_columns, stop when there is none, print the audit trail
XlsxClassify ==
  /\ variant = "xlsx" /\ pc = "classify"
  /\ LET found == RelevantColumns(HeadersOf(df))
         uc == UniqueCourses(found, <<>>)
     IN /\ relevant_columns' = found
        /\ IF found = <<>>
           THEN /\ console' = Append(console, <<"no_relevant_columns">>)
                /\ unique_courses' = <<>>
                /\ pc' = "done"
           ELSE /\ console' = console \o <<<<"found_relevant", Len(found)>>>>
                                      \o AuditLines(uc)
                /\ unique_courses' = uc
                /\ pc' = "score"
  /\ UNCHANGED <<variant, file, df, course_scores, respondent_scores,
                 results_sorted, course_ratings, course_stats, outputs_dir,
                 chart_saved>>

\* one iteration of "for course in courses"
XlsxScoreCourse ==
  /\ variant = "xlsx" /\ pc = "score"
  /\ Len(course_scores) < Len(unique_courses)
  /\ LET course == unique_courses[Len(course_scores) + 1].course
         cols == ColsOfCourse(relevant_columns, course)
         course_df == BuildCourseDf(df, cols, EmptyDf)
         scores == RowMax(course_df)
     IN IF ~DfEmpty(course_df)
        THEN /\ respondent_scores' =
                  [c \in DOMAIN respondent_scores \cup {course} |->
                     IF c = course THEN scores ELSE respondent_scores[c]]
             /\ course_scores' =
                  Append(course_scores,
                         [course |-> course, mean |-> SeriesMean(scores)])
        ELSE /\ UNCHANGED respondent_scores
             /\ course_scores' =
                  Append(course_scores, [course |-> course, mean |-> NaNMean])
  /\ UNCHANGED <<variant, file, df, pc, console, relevant_columns,
                 unique_courses, results_sorted, course_ratings, course_stats,
                 outputs_dir, chart_saved>>

\* build the Series, sort it from highest to lowest, print it
XlsxRank ==
  /\ variant = "xlsx" /\ pc = "score"
  /\ Len(course_scores) = Len(unique_courses)
  /\ results_sorted' \in SortValuesDescending(course_scores)
  /\ console' = Append(console, <<"rankings">>)
  /\ pc' = "chart"
  /\ UNCHANGED <<variant, file, df, relevant_columns, unique_courses,
                 course_scores, respondent_scores, course_ratings,
                 course_stats, outputs_dir, chart_saved>>

\* make the outputs directory, draw and save the chart
XlsxChart ==
  /\ variant = "xlsx" /\ pc = "chart"
  /\ outputs_dir' = TRUE
  /\ chart_saved' = TRUE
  /\ console' = Append(console, <<"chart_saved">>)
  /\ pc' = "done"
  /\ UNCHANGED <<variant, file, df, relevant_columns, unique_courses,
                 course_scores, respondent_scores, results_sorted,
                 course_ratings, course_stats>>

\* --------------------------------------------------- CSV variant: actions
\* not os.path.exists(filepath)
CsvPathMissing(f) == f = "missing"

\* check the path, read the file; load_data returns None on a read error
CsvLoad ==
  /\ variant = "csv" /\ pc = "start"
  /\ IF CsvPathMissing(file)
     THEN /\ console' = Append(console, <<"file_not_found">>)
          /\ pc' = "done"
     ELSE IF file = "unreadable"
     THEN /\ console' = console \o <<<<"loading">>, <<"error_reading_file">>>>
          /\ pc' = "done"
     ELSE /\ console' = Append(console, <<"loading">>)
          /\ pc' = "extract"
  /\ UNCHANGED <<variant, file, df, relevant_columns, unique_courses,
                 course_scores, respondent_scores, results_sorted,
                 course_ratings, course_stats, outputs_dir, chart_saved>>

\* the loop over the columns that fills course_ratings
CsvExtract ==
  /\ variant = "csv" /\ pc = "extract"
  /\ LET ex == ExtractRatings(df, 1)
     IN /\ console' = console \o <<<<"mapping_header">>>> \o ex.lines
        /\ course_ratings' = ex.ratings
  /\ pc' = "aggregate"
  /\ UNCHANGED <<variant, file, df, relevant_columns, unique_courses,
                 course_scores, respondent_scores, results_sorted,
                 course_stats, outputs_dir, chart_saved>>

\* stop when there is no rating; else mean and count per course, sorted
CsvAggregate ==
  /\ variant = "csv" /\ pc = "aggregate"
  /\ IF course_ratings = <<>>
     THEN /\ console' = Append(console, <<"no_ratings">>)
          /\ pc' = "done"
          /\ UNCHANGED course_stats
     ELSE /\ course_stats' \in SortValuesDescending(GroupByCourse(course_ratings, 1))
          /\ console' = Append(console, <<"rankings">>)
          /\ pc' = "chart"
  /\ UNCHANGED <<variant, file, df, relevant_columns, unique_courses,
                 course_scores, respondent_scores, results_sorted,
                 course_ratings, outputs_dir, chart_saved>>

\* draw the chart, make the outputs directory, save
CsvChart ==
  /\ variant = "csv" /\ pc = "chart"
  /\ outputs_dir' = TRUE
  /\ chart_saved' = TRUE
  /\ console' = Append(console, <<"chart_saved">>)
  /\ pc' = "done"
  /\ UNCHANGED <<variant, file, df, relevant_columns, unique_courses,
                 course_scores, respondent_scores, results_sorted,
                 course_ratings, course_stats>>

Next ==
  \/ XlsxLoad
  \/ XlsxClassify
  \/ XlsxScoreCourse
  \/ XlsxRank
  \/ XlsxChart
  \/ CsvLoad
  \/ CsvExtract
  \/ CsvAggregate
  \/ CsvChart

Spec == Init /\ [][Next]_vars

\* =============================================================== claims
ScoringGroups == {"Most Beneficial", "Neutral", "Least Beneficial"}

\* the canonical score of a scoring group
CanonicalScore(group) ==
  CASE group = "Most Beneficial" -> 3
    [] group = "Neutral" -> 2
    [] group = "Least Beneficial" -> 1

\* the courses the spreadsheet variant has scored so far
ScoredCourses == {course_scores[i].course : i \in DOMAIN course_scores}

MeanOfCourse(c) ==
  course_scores[CHOOSE i \in DOMAIN course_scores : course_scores[i].course = c].mean

\* the score the resolver kept for respondent r in course c
ResolvedScore(c, r) ==
  IF c \in DOMAIN respondent_scores THEN respondent_scores[c][r] ELSE None

ScoredRespondents(c) == {r \in Respondents : ~IsNone(ResolvedScore(c, r))}

\* the classified columns of course c, in a scoring group, that respondent r
\* has answered
Populated(c, r) ==
  { k \in DOMAIN relevant_columns :
      /\ relevant_columns[k].course = c
      /\ relevant_columns[k].group \in ScoringGroups
      /\ notna(ColumnOf(df, relevant_columns[k].col_idx)[r]) }

MaxCanonical(S) ==
  LET scores == {CanonicalScore(relevant_columns[k].group) : k \in S}
  IN CHOOSE x \in scores : \A y \in scores : y <= x

\* the aggregated result handed to the reporter, of either variant
Reported == IF variant = "xlsx" THEN results_sorted ELSE course_stats

\* C1: a respondent with answers in columns of two different scoring groups
\* of one course contributes exactly one score to that course, the maximum
\* of the canonical scores of the answered groups
C1_TwoGroupsResolveToMax ==
  \A c \in ScoredCourses : \A r \in Respondents :
    (\E j, k \in Populated(c, r) :
        relevant_columns[j].group # relevant_columns[k].group)
      => /\ ResolvedScore(c, r) = Some(MaxCanonical(Populated(c, r)))
         /\ MeanOfCourse(c).den = Cardinality(ScoredRespondents(c))

\* C2: a "Did not take" column never contributes: every score a respondent
\* has in a course is the canonical score of an answered column of that
\* course whose group is not "Did not take", and the course mean is made of
\* those scores alone
C2_DidNotTakeNeverContributes ==
  \A c \in ScoredCourses :
    /\ \A r \in ScoredRespondents(c) :
         \E k \in Populated(c, r) :
            /\ relevant_columns[k].group # "Did not take"
            /\ CanonicalScore(relevant_columns[k].group) = Val(ResolvedScore(c, r))
    /\ MeanOfCourse(c).den =
         Cardinality({r \in Respondents : Populated(c, r) # {}
                                          /\ ~IsNone(ResolvedScore(c, r))})
    /\ MeanOfCourse(c).num =
         SumOver([r \in ScoredRespondents(c) |-> Val(ResolvedScore(c, r))],
                 ScoredRespondents(c))

\* a respondent answered only the "Did not take" column of a course and got no
\* score, while another respondent of that course was scored
C2_Witness ==
  /\ variant = "xlsx" /\ pc = "done"
  /\ \E k \in DOMAIN relevant_columns : \E r, q \in Respondents :
       LET c == relevant_columns[k].course
       IN /\ relevant_columns[k].group = "Did not take"
          /\ notna(ColumnOf(df, relevant_columns[k].col_idx)[r])
          /\ c \in ScoredCourses
          /\ IsNone(ResolvedScore(c, r))
          /\ ~IsNone(ResolvedScore(c, q))
          /\ MeanOfCourse(c).den = 1

\* the ratings of course c in the CSV variant
RatingsOf(c) == {j \in DOMAIN course_ratings : course_ratings[j].Course = c}

C4_ReportedCoursesHaveObservations ==
  \A i \in DOMAIN Reported : ~IsNaNMean(Reported[i].mean)

\* C5: the ranking is by mean descending, and courses of equal mean are in
\* ascending course-name order
C5_RankingTiesByName ==
  \A i, j \in DOMAIN Reported :
    i < j /\ ~IsNaNMean(Reported[i].mean) /\ ~IsNaNMean(Reported[j].mean)
      => /\ ~MeanGT(Reported[j].mean, Reported[i].mean)
         /\ MeanEq(Reported[i].mean, Reported[j].mean)
              => NameLess(Reported[i].course, Reported[j].course)

\* no column of the input yields a scored observation
NoValidObservation ==
  IF variant = "xlsx"
  THEN \A k \in DOMAIN df :
         LET info == parse_header(df[k].header)
         IN \/ IsNone(info)
            \/ Val(info).group \notin ScoringGroups
            \/ \A r \in Respondents : isna(df[k].cells[r])
  ELSE \A k \in DOMAIN df :
         \/ ~CoreOrElectiveId(df[k].header.qid)
         \/ \A r \in Respondents : IsNone(map_group_to_score(df[k].cells[r]))

\* C6: with no relevant column, or no valid observation at all, the run ends
\* with a diagnostic and never reaches the chart
C6_EmptyResultWritesNoChart ==
  file = "ok" /\ NoValidObservation =>
    /\ pc \notin {"chart", "crashed"}
    /\ ~outputs_dir
    /\ ~chart_saved
    /\ pc = "done" =>
         console[Len(console)][1] \in {"no_relevant_columns", "no_ratings"}

\* C7: with the input file missing the run prints the diagnostic and stops:
\* nothing is classified, ranked or written
C7_MissingFileStopsRun ==
  file = "missing" =>
    /\ pc \in {"start", "done"}
    /\ pc = "start" => console = <<>>
    /\ pc = "done" => console = <<<<"file_not_found">>>>
    /\ relevant_columns = <<>>
    /\ unique_courses = <<>>
    /\ course_scores = <<>>
    /\ course_ratings = <<>>
    /\ results_sorted = <<>>
    /\ course_stats = <<>>
    /\ ~outputs_dir
    /\ ~chart_saved

\* the run on a missing file has ended after its diagnostic
C7_Witness ==
  file = "missing" /\ pc = "done" /\ console = <<<<"file_not_found">>>>

\* the columns whose label has a marker and fails the pattern
DroppedRelevant ==
  { k \in DOMAIN df :
      /\ \/ TextContains(df[k].header.q_text, "CORE")
         \/ TextContains(df[k].header.q_text, "Elective")
      /\ RankMatches(df[k].header.q_text) = {} }

\* C8: the number of dropped-but-relevant columns is surfaced to the operator
C8_DroppedCountSurfaced ==
  variant = "xlsx" /\ file = "ok" /\ pc \in {"score", "chart", "done"}
    /\ DroppedRelevant # {}
    => \E i \in DOMAIN console :
          /\ console[i][1] = "dropped_columns"
          /\ console[i][2] = Cardinality(DroppedRelevant)

\* C9: in the CSV variant at most one scored observation per respondent and
\* course enters the aggregation
C9_OneObservationPerRespondentAndCourse ==
  \A i, j \in DOMAIN course_ratings :
    /\ course_ratings[i].Respondent = course_ratings[j].Respondent
    /\ course_ratings[i].Course = course_ratings[j].Course
    => i = j

\* C10: no answered scoring column is ignored: a respondent with an answer in
\* any scoring column of a course gets the maximum canonical score over all
\* the answered columns, also when two columns carry the same group label
C10_NoPopulatedColumnIgnored ==
  \A c \in ScoredCourses : \A r \in Respondents :
    Populated(c, r) # {}
      => ResolvedScore(c, r) = Some(MaxCanonical(Populated(c, r)))

====
